---- MODULE Spec2Model ----
(***************************************************************************)
(* Model of check-problems.py: the issue log (_log), the document-tree     *)
(* classifier (_dfs), the plain-text / math-text detectors, the metadata   *)
(* checker (_check_metadata_recursive) and the per-problem loop of         *)
(* check_problems.                                                         *)
(*                                                                         *)
(* Strings are sequences of one-character strings, so that lower(),        *)
(* joining, regular-expression matching and sorting are computed.          *)
(***************************************************************************)
EXTENDS Integers, Sequences, FiniteSets, TLC

VARIABLES
    ERRORS,              \* _ERRORS: key -> list of messages
    pc,                  \* position of the running operation
    doc,                 \* the parsed document tree (tex.parse())
    stack,               \* _dfs call stack: frames [node, in_math, next]
    plain_text,          \* list of pieces appended by _dfs
    math_text,           \* list of pieces appended by _dfs
    spelling_dictionary, \* None or a set of words
    misspelled_words,
    incorrect_math,
    missing_math_mode,
    declared,            \* specified_metadata (yaml.safe_load)
    defaults,            \* the default schema
    mstack,              \* _check_metadata_recursive call stack
    visited,             \* full keys examined by the loop of line 184, in order
    problems,            \* the list given to check_problems
    pidx,                \* index of the problem being processed
    fidx,                \* index of the statement file being processed
    kidx,                \* index of the metadata field being compared
    metadata,            \* check_problems' metadata dict
    errors,              \* check_problems' errors list
    env,                 \* the modules imported, the dictionaries loaded, the packages on disk
    trace                \* per file: what happened to it (parser outcome, line checks)

vars == <<ERRORS, pc, doc, stack, plain_text, math_text, spelling_dictionary,
          misspelled_words, incorrect_math, missing_math_mode, declared,
          defaults, mstack, visited, problems, pidx, fidx, kidx, metadata,
          errors, env, trace>>

dfsVars  == <<doc, stack, plain_text, math_text>>
textVars == <<spelling_dictionary, misspelled_words, incorrect_math, missing_math_mode>>
metaVars == <<declared, defaults, mstack, visited>>
runVars  == <<problems, pidx, fidx, kidx, metadata, errors, env, trace>>

\* Python values are tagged: None, a set of words, ...
None == [t |-> "None"]
WordSet(S) == [t |-> "set", words |-> S]

----------------------------------------------------------------------------
(* Characters and strings *)

\* the characters used, in code-point order
CharOrder ==
    << " ", "#", ",", "-", ".", "/",
       "0", "1", "2", "3", "4", "5", "6", "7", "8", "9",
       "A", "B", "C", "D", "E", "F", "G", "H", "I", "J", "K", "L", "M",
       "N", "O", "P", "Q", "R", "S", "T", "U", "V", "W", "X", "Y", "Z",
       "_",
       "a", "b", "c", "d", "e", "f", "g", "h", "i", "j", "k", "l", "m",
       "n", "o", "p", "q", "r", "s", "t", "u", "v", "w", "x", "y", "z" >>

OrdMap == [c \in {CharOrder[i] : i \in DOMAIN CharOrder} |->
              CHOOSE i \in DOMAIN CharOrder : CharOrder[i] = c]
\* ord(c), as a rank among the characters used
Ord(c) == OrdMap[c]

Digits  == {"0", "1", "2", "3", "4", "5", "6", "7", "8", "9"}
Uppers  == {CharOrder[i] : i \in Ord("A")..Ord("Z")}
Lowers  == {CharOrder[i] : i \in Ord("a")..Ord("z")}

IsDigit(c) == c \in Digits
\* \w of the re module
IsWord(c)  == c \in Digits \cup Uppers \cup Lowers \cup {"_"}
\* \s of the re module
IsSpace(c) == c = " "

LowerChar(c) == IF c \in Uppers THEN CharOrder[Ord(c) - Ord("A") + Ord("a")] ELSE c
\* str.lower()
Lower(s) == [i \in 1..Len(s) |-> LowerChar(s[i])]

RECURSIVE Join(_)
\* ''.join(pieces)
Join(pieces) == IF pieces = <<>> THEN <<>> ELSE Head(pieces) \o Join(Tail(pieces))

RECURSIVE StrLess(_, _)
\* s < t for Python strings
StrLess(s, t) ==
    IF s = <<>> THEN t # <<>>
    ELSE IF t = <<>> THEN FALSE
    ELSE IF Head(s) = Head(t) THEN StrLess(Tail(s), Tail(t))
    ELSE Ord(Head(s)) < Ord(Head(t))

RECURSIVE Sorted(_)
\* sorted(set of strings)
Sorted(S) ==
    IF S = {} THEN <<>>
    ELSE LET m == CHOOSE x \in S : \A y \in S \ {x} : StrLess(x, y)
         IN  <<m>> \o Sorted(S \ {m})

Range(f) == {f[i] : i \in DOMAIN f}

\* a in t, for Python strings
IsSubstr(a, t) == \E k \in 0..(Len(t) - Len(a)) : SubSeq(t, k + 1, k + Len(a)) = a

----------------------------------------------------------------------------
(* The issue log *)

Msg(text, args) == [msg |-> text, args |-> args]

\* _log(dest, key, message)
Log(dest, key, message) ==
    IF key \in DOMAIN dest
    THEN [dest EXCEPT ![key] = Append(@, message)]
    ELSE dest @@ (key :> <<message>>)

RECURSIVE LogAll(_, _, _)
LogAll(dest, key, messages) ==
    IF messages = <<>> THEN dest
    ELSE LogAll(Log(dest, key, Head(messages)), key, Tail(messages))

\* messagesFor(key): _ERRORS.get(k, [])
Messages(dest, key) == IF key \in DOMAIN dest THEN dest[key] ELSE <<>>

EmptyLog == [k \in {} |-> <<>>]

----------------------------------------------------------------------------
(* The document tree (plasTeX DOM), nodes numbered in document order *)

MaxNodes == 5

\* nodeName of a node of each kind
NodeName(kind) ==
    CASE kind = "bgroup"    -> <<"b", "g", "r", "o", "u", "p">>
      [] kind = "math"      -> <<"m", "a", "t", "h">>
      [] kind = "par"       -> <<"p", "a", "r">>
      [] kind = "#document" -> <<"#", "d", "o", "c", "u", "m", "e", "n", "t">>
      [] kind = "Text"      -> <<"#", "t", "e", "x", "t">>

NodeKinds == {"Text", "bgroup", "math", "par"}

\* node.childNodes
Children(d, i) ==
    LET kids == {j \in 1..d.n : d.parent[j] = i}
        RECURSIVE Asc(_)
        Asc(S) == IF S = {} THEN <<>>
                  ELSE LET m == CHOOSE x \in S : \A y \in S : x <= y
                       IN  <<m>> \o Asc(S \ {m})
    IN  Asc(kids)

RECURSIVE IsAncestor(_, _, _)
\* a is a proper ancestor of node j
IsAncestor(d, a, j) ==
    /\ d.parent[j] # 0
    /\ \/ d.parent[j] = a
       \/ IsAncestor(d, a, d.parent[j])

\* the payload given to the Text node numbered i
PayloadOf(i) == <<"W", CharOrder[Ord("0") + i]>>

DocumentOnly == [n |-> 1, parent |-> <<0>>, kind |-> <<"#document">>, text |-> <<<<>>>>]

\* the nodes a next node (in document order) can hang under: the last node and
\* its ancestors, Text nodes excepted (they are leaves)
OpenNodes(d) ==
    {a \in 1..d.n : /\ a = d.n \/ IsAncestor(d, a, d.n)
                    /\ d.kind[a] # "Text"}

AddNode(d, p, k) ==
    [n |-> d.n + 1, parent |-> Append(d.parent, p), kind |-> Append(d.kind, k),
     text |-> Append(d.text, IF k = "Text" THEN PayloadOf(d.n + 1) ELSE <<>>)]

RECURSIVE DocsOfSize(_)
\* document trees of n nodes: the root is the document node, Text nodes are leaves
DocsOfSize(n) ==
    IF n = 1 THEN {DocumentOnly}
    ELSE UNION {{AddNode(d, p, k) : p \in OpenNodes(d), k \in NodeKinds} :
                   d \in DocsOfSize(n - 1)}

\* the document trees of at most max nodes
Docs(max) == UNION {DocsOfSize(n) : n \in 1..max}

NoDoc == [n |-> 0, parent |-> <<>>, kind |-> <<>>, text |-> <<>>]

----------------------------------------------------------------------------
(* _dfs *)

\* DfsVisit with a slip: a group visited in math context hands "not in math" down
DfsVisit_GroupLeavesMath(d, i, in_math, pt, mt) ==
    LET is_plain_text == d.kind[i] = "Text"
        text == IF is_plain_text THEN Lower(d.text[i])
                ELSE NodeName(d.kind[i]) \o <<" ">>
    IN  IF in_math
        THEN [plain_text |-> pt, math_text |-> Append(mt, text),
              in_math |-> d.kind[i] # "bgroup"]
        ELSE IF is_plain_text
        THEN [plain_text |-> Append(pt, text), math_text |-> mt, in_math |-> FALSE]
        ELSE IF d.kind[i] = "bgroup"
        THEN [plain_text |-> Append(pt, <<" ">>), math_text |-> Append(mt, <<" ">>),
              in_math |-> FALSE]
        ELSE IF d.kind[i] = "math"
        THEN [plain_text |-> pt, math_text |-> Append(mt, <<" ">>), in_math |-> TRUE]
        ELSE [plain_text |-> pt, math_text |-> mt, in_math |-> FALSE]

\* DfsVisit with a slip: a group in plain context separates the math stream only
DfsVisit_NoPlainSeparator(d, i, in_math, pt, mt) ==
    LET is_plain_text == d.kind[i] = "Text"
        text == IF is_plain_text THEN Lower(d.text[i])
                ELSE NodeName(d.kind[i]) \o <<" ">>
    IN  IF in_math
        THEN [plain_text |-> pt, math_text |-> Append(mt, text), in_math |-> TRUE]
        ELSE IF is_plain_text
        THEN [plain_text |-> Append(pt, text), math_text |-> mt, in_math |-> FALSE]
        ELSE IF d.kind[i] = "bgroup"
        THEN [plain_text |-> pt, math_text |-> Append(mt, <<" ">>), in_math |-> FALSE]
        ELSE IF d.kind[i] = "math"
        THEN [plain_text |-> pt, math_text |-> Append(mt, <<" ">>), in_math |-> TRUE]
        ELSE [plain_text |-> pt, math_text |-> mt, in_math |-> FALSE]

\* DfsVisit with a slip: outside math, the name of any other node is taken as text
DfsVisit_NameAsText(d, i, in_math, pt, mt) ==
    LET is_plain_text == d.kind[i] = "Text"
        text == IF is_plain_text THEN Lower(d.text[i])
                ELSE NodeName(d.kind[i]) \o <<" ">>
    IN  IF in_math
        THEN [plain_text |-> pt, math_text |-> Append(mt, text), in_math |-> TRUE]
        ELSE IF is_plain_text
        THEN [plain_text |-> Append(pt, text), math_text |-> mt, in_math |-> FALSE]
        ELSE IF d.kind[i] = "bgroup"
        THEN [plain_text |-> Append(pt, <<" ">>), math_text |-> Append(mt, <<" ">>),
              in_math |-> FALSE]
        ELSE IF d.kind[i] = "math"
        THEN [plain_text |-> pt, math_text |-> Append(mt, <<" ">>), in_math |-> TRUE]
        ELSE [plain_text |-> Append(pt, text), math_text |-> mt, in_math |-> FALSE]

\* the body of _dfs for one node, before its children are visited
DfsVisit(d, i, in_math, pt, mt) ==
    LET is_plain_text == d.kind[i] = "Text"
        text == IF is_plain_text THEN Lower(d.text[i])
                ELSE NodeName(d.kind[i]) \o <<" ">>
    IN  IF in_math
        THEN [plain_text |-> pt, math_text |-> Append(mt, text), in_math |-> TRUE]
        ELSE IF is_plain_text
        THEN [plain_text |-> Append(pt, text), math_text |-> mt, in_math |-> FALSE]
        ELSE IF d.kind[i] = "bgroup"
        THEN [plain_text |-> Append(pt, <<" ">>), math_text |-> Append(mt, <<" ">>),
              in_math |-> FALSE]
        ELSE IF d.kind[i] = "math"
        THEN [plain_text |-> pt, math_text |-> Append(mt, <<" ">>), in_math |-> TRUE]
        ELSE [plain_text |-> pt, math_text |-> mt, in_math |-> FALSE]

RECURSIVE Dfs(_, _, _, _, _)
\* _dfs(node, plain_text, math_text, path, in_math) run to completion
Dfs(d, i, in_math, pt, mt) ==
    LET own == DfsVisit(d, i, in_math, pt, mt)
        RECURSIVE Kids(_, _)
        Kids(ks, st) ==
            IF ks = <<>> THEN st
            ELSE LET r == Dfs(d, Head(ks), own.in_math, st.plain_text, st.math_text)
                 IN  Kids(Tail(ks), r)
    IN  Kids(Children(d, i), [plain_text |-> own.plain_text, math_text |-> own.math_text])

\* _dfs is entered: for the document (in_math=None) or for the next child of the
\* node on top of the stack
DfsCall ==
    /\ pc = "dfs"
    /\ \/ /\ stack = <<>>
          /\ plain_text = <<>> /\ math_text = <<>>
          /\ LET r == DfsVisit(doc, 1, FALSE, plain_text, math_text)
             IN  /\ plain_text' = r.plain_text
                 /\ math_text' = r.math_text
                 /\ stack' = <<[node |-> 1, in_math |-> r.in_math, next |-> 1]>>
       \/ /\ stack # <<>>
          /\ LET top  == stack[Len(stack)]
                 kids == Children(doc, top.node)
             IN  /\ top.next <= Len(kids)
                 /\ LET r == DfsVisit(doc, kids[top.next], top.in_math,
                                      plain_text, math_text)
                    IN  /\ plain_text' = r.plain_text
                        /\ math_text' = r.math_text
                        /\ stack' = Append(
                              [stack EXCEPT ![Len(stack)].next = @ + 1],
                              [node |-> kids[top.next], in_math |-> r.in_math,
                               next |-> 1])
    /\ UNCHANGED <<ERRORS, pc, doc, textVars, metaVars, runVars>>

\* the loop over childNodes is over: path.pop() and return
DfsReturn ==
    /\ pc = "dfs"
    /\ stack # <<>>
    /\ stack[Len(stack)].next > Len(Children(doc, stack[Len(stack)].node))
    /\ stack' = SubSeq(stack, 1, Len(stack) - 1)
    /\ pc' = IF Len(stack) = 1 THEN "check_plain" ELSE pc
    /\ UNCHANGED <<ERRORS, doc, plain_text, math_text, textVars, metaVars, runVars>>

----------------------------------------------------------------------------
(* The regular expressions of _parse_for_tex_errors *)

\* position k of s holds a word character
WordAt(s, k) == k \in 1..Len(s) /\ IsWord(s[k])

\* \b between s[k] and s[k+1] (k = 0: start of the string, k = Len(s): its end)
Boundary(s, k) == WordAt(s, k) # WordAt(s, k + 1)

\* the last index e such that s[i..e] lies in Set (i - 1 when s[i] does not)
RunEnd(s, i, Set) ==
    LET Ends == {e \in (i - 1)..Len(s) : \A k \in i..e : s[k] \in Set}
    IN  CHOOSE e \in Ends : \A f \in Ends : f <= e

Max(S) == CHOOSE x \in S : \A y \in S : y <= x

\* plain_text_word_re = \b\w([^\s]*\w)?\b matched at index i: the index of the
\* last character of the match, 0 when there is no match at i
WordMatchEnd(s, i) ==
    IF ~(WordAt(s, i) /\ Boundary(s, i - 1)) THEN 0
    ELSE LET r     == RunEnd(s, i + 1, {c \in Range(s) : ~IsSpace(c)})
             Cands == {e \in (i + 1)..r : WordAt(s, e) /\ Boundary(s, e)}
         IN  IF Cands # {} THEN Max(Cands)
             ELSE IF Boundary(s, i) THEN i
             ELSE 0

\* MathMatchEnd with a slip: the bare run is [0-9]{5,}
MathMatchEnd_FiveDigits(s, i) ==
    IF ~(i \in 1..Len(s) /\ IsDigit(s[i]) /\ Boundary(s, i - 1)) THEN 0
    ELSE LET j      == RunEnd(s, i, Digits \cup {","})
             Commas == {c \in (i + 1)..j :
                          /\ s[c] = ","
                          /\ RunEnd(s, c + 1, Digits) > c
                          /\ Boundary(s, RunEnd(s, c + 1, Digits))}
             k      == RunEnd(s, i, Digits)
         IN  IF Commas # {} THEN RunEnd(s, Max(Commas) + 1, Digits)
             ELSE IF k - i + 1 >= 5 /\ Boundary(s, k) THEN k
             ELSE 0

\* incorrect_math_re = \b([0-9]+[0-9,]*,[0-9]+|[0-9]{4,})\b matched at index i
MathMatchEnd(s, i) ==
    IF ~(i \in 1..Len(s) /\ IsDigit(s[i]) /\ Boundary(s, i - 1)) THEN 0
    ELSE LET j      == RunEnd(s, i, Digits \cup {","})
             \* a comma the third part can stand on, its digits and the final \b
             Commas == {c \in (i + 1)..j :
                          /\ s[c] = ","
                          /\ RunEnd(s, c + 1, Digits) > c
                          /\ Boundary(s, RunEnd(s, c + 1, Digits))}
             k      == RunEnd(s, i, Digits)
         IN  IF Commas # {} THEN RunEnd(s, Max(Commas) + 1, Digits)
             ELSE IF k - i + 1 >= 4 /\ Boundary(s, k) THEN k
             ELSE 0

RECURSIVE WordFindIter(_, _)
\* {m.group(0) for m in plain_text_word_re.finditer(text)}, scanning from pos
WordFindIter(s, pos) ==
    IF pos > Len(s) THEN {}
    ELSE LET e == WordMatchEnd(s, pos)
         IN  IF e = 0 THEN WordFindIter(s, pos + 1)
             ELSE {SubSeq(s, pos, e)} \cup WordFindIter(s, e + 1)

RECURSIVE MathFindIter(_, _)
\* {m.group(0) for m in incorrect_math_re.finditer(text)}, scanning from pos
MathFindIter(s, pos) ==
    IF pos > Len(s) THEN {}
    ELSE LET e == MathMatchEnd(s, pos)
         IN  IF e = 0 THEN MathFindIter(s, pos + 1)
             ELSE {SubSeq(s, pos, e)} \cup MathFindIter(s, e + 1)

\* MissingMathModeMatch with a slip: the pattern is anchored at both ends
MissingMathModeMatch_WholeWord(word) ==
    word # <<>> /\ \A k \in DOMAIN word : word[k] \in Digits \cup {".", ","}

\* missing_math_mode_re.match(word): ^[0-9.,]+
MissingMathModeMatch(word) ==
    word # <<>> /\ word[1] \in Digits \cup {".", ","}

\* `if spelling_dictionary:` -- neither None nor the empty set
Truthy(dict) == dict.t = "set" /\ dict.words # {}

\* _check_plain_text(text): the words added to the two sets
CheckPlainTextOp(text, dict) ==
    LET words == WordFindIter(text, 1)
        todo  == IF Truthy(dict) THEN words \ dict.words ELSE {}
    IN  [missing_math_mode |-> {w \in todo : MissingMathModeMatch(w)},
         misspelled_words  |-> {w \in todo : ~MissingMathModeMatch(w)}]

\* _check_math_text(text): the words added to incorrect_math
CheckMathTextOp(text) == MathFindIter(text, 1)

\* the three warnings of lines 316-321, in the order they are logged
Findings(misspelled, incorrect, missing) ==
    (IF misspelled # {} THEN <<Msg("misspelled words", Sorted(misspelled))>> ELSE <<>>)
    \o (IF incorrect # {} THEN <<Msg("incorrect math", Sorted(incorrect))>> ELSE <<>>)
    \o (IF missing # {} THEN <<Msg("missing math mode", Sorted(missing))>> ELSE <<>>)

\* the key of the statement file the detectors work on
FileKey(p, f) == <<p, "problem_statement", f>>
ProblemKey(p) == <<p>>
General == <<"_general_">>

TheFile == FileKey("p", "problem.tex")

\* line 313
CheckPlainText ==
    /\ pc = "check_plain"
    /\ LET r == CheckPlainTextOp(Join(plain_text), spelling_dictionary)
       IN  /\ missing_math_mode' = missing_math_mode \cup r.missing_math_mode
           /\ misspelled_words' = misspelled_words \cup r.misspelled_words
    /\ pc' = "check_math"
    /\ UNCHANGED <<ERRORS, dfsVars, spelling_dictionary, incorrect_math, metaVars, runVars>>

\* line 314
CheckMathText ==
    /\ pc = "check_math"
    /\ incorrect_math' = incorrect_math \cup CheckMathTextOp(Join(math_text))
    /\ pc' = "report"
    /\ UNCHANGED <<ERRORS, dfsVars, spelling_dictionary, misspelled_words,
                   missing_math_mode, metaVars, runVars>>

\* lines 316-321
Report ==
    /\ pc = "report"
    /\ ERRORS' = LogAll(ERRORS, TheFile,
                        Findings(misspelled_words, incorrect_math, missing_math_mode))
    /\ pc' = "done"
    /\ UNCHANGED <<dfsVars, textVars, metaVars, runVars>>

----------------------------------------------------------------------------
(* Classification of a document: _dfs, then the detectors (lines 309-321) *)

\* the dictionary used when whole documents are classified
DocDictionary == WordSet({<<"w", "2">>, <<"w", "3">>})

IdleMeta == /\ declared = None /\ defaults = None /\ mstack = <<>> /\ visited = <<>>
IdleRun  == /\ problems = <<>> /\ pidx = 0 /\ fidx = 0 /\ kidx = 0 /\ metadata = EmptyLog
            /\ errors = <<>> /\ env = {} /\ trace = EmptyLog
IdleSets == /\ misspelled_words = {} /\ incorrect_math = {} /\ missing_math_mode = {}

InitDfs ==
    /\ ERRORS = EmptyLog
    /\ pc = "dfs"
    /\ doc \in Docs(MaxNodes)
    /\ stack = <<>> /\ plain_text = <<>> /\ math_text = <<>>
    /\ spelling_dictionary = DocDictionary
    /\ IdleSets /\ IdleMeta /\ IdleRun

NextDfs == DfsCall \/ DfsReturn \/ CheckPlainText \/ CheckMathText \/ Report

SpecDfs == InitDfs /\ [][NextDfs]_vars

HasMathAncestor(d, i) == \E a \in 1..d.n : d.kind[a] = "math" /\ IsAncestor(d, a, i)

Count(seq, x) == Cardinality({k \in DOMAIN seq : seq[k] = x})

\* the step enters _dfs for node i
Entering(i) ==
    /\ pc = "dfs"
    /\ Len(stack') = Len(stack) + 1
    /\ stack'[Len(stack')].node = i

\* the context node i is called with
ContextOf(i) == IF stack = <<>> THEN FALSE ELSE stack[Len(stack)].in_math

TextPieces == {Lower(doc.text[i]) : i \in {j \in 1..doc.n : doc.kind[j] = "Text"}}

\* C2: a Text node's lowercased payload goes to mathText iff the node has a math
\* ancestor at any depth, and to plainText otherwise; the context handed down by
\* every node on the call stack is "in math" exactly for math nodes and their
\* descendants (inherited, never escaped, never leaked to later siblings).
C2_MathInherited ==
    /\ \A k \in DOMAIN stack :
          stack[k].in_math = (doc.kind[stack[k].node] = "math"
                              \/ HasMathAncestor(doc, stack[k].node))
    /\ pc # "dfs" =>
          \A i \in 1..doc.n : doc.kind[i] = "Text" =>
              LET t == Lower(doc.text[i])
              IN  IF HasMathAncestor(doc, i)
                  THEN Count(math_text, t) = 1 /\ Count(plain_text, t) = 0
                  ELSE Count(math_text, t) = 0 /\ Count(plain_text, t) = 1

C2_Witness ==
    /\ pc = "done"
    /\ \E i, j \in 1..doc.n :
          /\ doc.kind[i] = "Text" /\ doc.kind[j] = "Text" /\ i < j
          /\ HasMathAncestor(doc, i) /\ doc.kind[doc.parent[i]] # "math"
          /\ ~HasMathAncestor(doc, j)
          /\ Count(math_text, <<"w", CharOrder[Ord("0") + i]>>) = 1
          /\ Count(plain_text, <<"w", CharOrder[Ord("0") + j]>>) = 1

\* C9 as claimed: at every bgroup node, in either context, one space is appended
\* to plainText and one to mathText, and the context is handed down unchanged.
C9_Original ==
    [][\A i \in 1..doc.n : (Entering(i) /\ doc.kind[i] = "bgroup") =>
          /\ plain_text' = Append(plain_text, <<" ">>)
          /\ math_text' = Append(math_text, <<" ">>)
          /\ stack'[Len(stack')].in_math = ContextOf(i)]_vars

\* two adjacent bgroup nodes in plain context, each holding one Text node
AdjacentGroups(g, h) ==
    /\ g \in 2..doc.n /\ h \in 2..doc.n /\ g < h
    /\ doc.kind[g] = "bgroup" /\ doc.kind[h] = "bgroup"
    /\ doc.parent[g] = doc.parent[h]
    /\ ~\E m \in (g + 1)..(h - 1) : doc.parent[m] = doc.parent[g]
    /\ ~HasMathAncestor(doc, g)
    /\ Len(Children(doc, g)) = 1 /\ doc.kind[Children(doc, g)[1]] = "Text"
    /\ Len(Children(doc, h)) = 1 /\ doc.kind[Children(doc, h)[1]] = "Text"

\* C9 amended: at a bgroup node in plain context one space is appended to
\* plainText and one to mathText; in math context the piece "bgroup " is appended
\* to mathText and nothing to plainText; either way this happens on entry, before
\* the children, and the context is handed down unchanged. Two adjacent bgroup
\* nodes in plain context, each holding one word, yield two separate tokens.
C9_GroupSeparator ==
    /\ [][\A i \in 1..doc.n : (Entering(i) /\ doc.kind[i] = "bgroup") =>
            /\ stack'[Len(stack')].in_math = ContextOf(i)
            /\ IF ContextOf(i)
               THEN /\ plain_text' = plain_text
                    /\ math_text' = Append(math_text, NodeName("bgroup") \o <<" ">>)
               ELSE /\ plain_text' = Append(plain_text, <<" ">>)
                    /\ math_text' = Append(math_text, <<" ">>)]_vars
    /\ [](pc # "dfs" =>
            \A g, h \in 1..doc.n : AdjacentGroups(g, h) =>
                LET a == Lower(doc.text[Children(doc, g)[1]])
                    b == Lower(doc.text[Children(doc, h)[1]])
                IN  /\ IsSubstr(a \o <<" ">> \o b, Join(plain_text))
                    /\ \A w \in WordFindIter(Join(plain_text), 1) :
                          ~(IsSubstr(a, w) /\ IsSubstr(b, w)))

C9_Witness ==
    /\ pc = "done"
    /\ \E g, h \in 1..doc.n : AdjacentGroups(g, h)
    /\ Join(plain_text) = <<" ", "w", "3", " ", "w", "5">>

\* C10 as claimed: every piece of both streams is a lowercased Text payload or a
\* single space (a node name is never appended).
C10_Original ==
    \A piece \in Range(plain_text) \cup Range(math_text) :
        piece = <<" ">> \/ piece \in TextPieces

IsGeneric(i) == doc.kind[i] \notin {"Text", "bgroup", "math"}

\* C10 amended: a Generic node contributes nothing in plain context (no name, no
\* separator); in math context it appends its node name followed by one space to
\* mathText and nothing to plainText; the context is handed down unchanged.
\* Hence every piece of plainText is a lowercased Text payload or a single
\* space, and every piece of mathText is one of those or the name-plus-space of
\* a non-Text node that lies inside a math subtree.
C10_GenericNode ==
    /\ [][\A i \in 1..doc.n : (Entering(i) /\ IsGeneric(i)) =>
            /\ stack'[Len(stack')].in_math = ContextOf(i)
            /\ plain_text' = plain_text
            /\ math_text' = IF ContextOf(i)
                            THEN Append(math_text, NodeName(doc.kind[i]) \o <<" ">>)
                            ELSE math_text]_vars
    /\ [](/\ \A piece \in Range(plain_text) :
                piece = <<" ">> \/ piece \in TextPieces
          /\ \A piece \in Range(math_text) :
                \/ piece = <<" ">> \/ piece \in TextPieces
                \/ \E i \in 1..doc.n :
                      /\ doc.kind[i] # "Text" /\ HasMathAncestor(doc, i)
                      /\ piece = NodeName(doc.kind[i]) \o <<" ">>)

C10_Witness ==
    /\ pc = "done"
    /\ \E i, j \in 1..doc.n :
          /\ doc.kind[i] = "par" /\ doc.kind[j] = "par"
          /\ HasMathAncestor(doc, i) /\ ~HasMathAncestor(doc, j)
    /\ Count(math_text, <<"p", "a", "r", " ">>) = 1
    /\ Count(plain_text, <<"p", "a", "r", " ">>) = 0

----------------------------------------------------------------------------
(* The detectors on given streams *)

MaxPlainLen == 4
MaxMathLen == 6

PlainChars == {"a", "1", ".", " "}
MathChars  == {"1", ",", "a", " "}

RECURSIVE Strings(_, _)
\* the strings over A of length at most n
Strings(A, n) ==
    IF n = 0 THEN {<<>>}
    ELSE LET S == Strings(A, n - 1)
         IN  S \cup {Append(x, c) : x \in S, c \in A}

PlainExample ==
    <<"t", "h", "e", " ", "c", "a", "t", " ", "s", "a", "t", " ",
       "o", "n", " ", "4", "2", " ", "m", "a", "t", "s">>
PlainExampleDictionary ==
    WordSet({<<"t", "h", "e">>, <<"c", "a", "t">>, <<"s", "a", "t">>})
MathExample ==
    <<"t", "h", "e", "r", "e", " ", "a", "r", "e", " ", "1", "2",
       ",", "3", "4", " ", "i", "t", "e", "m", "s", " ", "a", "n",
       "d", " ", "2", "0", "0", "0", "0", " ", "t", "o", "t", "a",
       "l">>

Dictionaries == {None, WordSet({}), WordSet({<<"a">>}), WordSet({<<"1">>, <<"a", ".", "a">>})}

\* the state of _parse_for_tex_errors at line 313: _dfs has returned. The plain
\* stream of a document with one Text node is its lowercased payload; the math
\* stream of a document that is one math node is a space, then what the node
\* holds.
InitText ==
    /\ ERRORS = EmptyLog
    /\ pc = "check_plain"
    /\ doc = NoDoc /\ stack = <<>>
    /\ \/ /\ plain_text \in {<<x>> : x \in Strings(PlainChars, MaxPlainLen)}
          /\ spelling_dictionary \in Dictionaries
          /\ math_text = <<>>
       \/ /\ plain_text = <<PlainExample>>
          /\ spelling_dictionary \in {None, PlainExampleDictionary}
          /\ math_text = <<>>
       \/ /\ plain_text = <<>>
          /\ spelling_dictionary = None
          /\ math_text \in {<< <<" ">>, x >> : x \in Strings(MathChars, MaxMathLen) \cup {MathExample}}
    /\ IdleSets /\ IdleMeta /\ IdleRun

NextText == CheckPlainText \/ CheckMathText \/ Report

SpecText == InitText /\ [][NextText]_vars

\* the argument lists of the findings named kind logged for the file
Found(kind) ==
    LET ms == Messages(ERRORS, TheFile)
    IN  [k \in {j \in DOMAIN ms : ms[j].msg = kind} |-> ms[k].args]

StrictlySorted(L) == \A i, j \in DOMAIN L : i < j => StrLess(L[i], L[j])

\* the finding named kind lists exactly S, sorted and without duplicates, and is
\* logged once when S is not empty, not at all when it is
Lists(kind, S) ==
    LET f == Found(kind)
    IN  IF S = {} THEN DOMAIN f = {}
        ELSE /\ Cardinality(DOMAIN f) = 1
             /\ \A k \in DOMAIN f : Range(f[k]) = S /\ StrictlySorted(f[k])

\* the tokens of a text: the maximal substrings without whitespace that start
\* and end with a word character
TokensOf(s) ==
    LET IsTok(i, e) == /\ i <= e /\ WordAt(s, i) /\ WordAt(s, e)
                       /\ \A k \in i..e : ~IsSpace(s[k])
    IN  {SubSeq(s, ie[1], ie[2]) :
            ie \in {x \in (1..Len(s)) \X (1..Len(s)) :
                      /\ IsTok(x[1], x[2])
                      /\ \A y \in (1..x[1]) \X (x[2]..Len(s)) :
                            IsTok(y[1], y[2]) => y = x}}

\* C6: with a non-empty dictionary every token of plainText not in the
\* dictionary is in exactly one finding, "missing math mode" when it starts with
\* a digit and "misspelled words" otherwise, each finding sorted, duplicate-free
\* and logged only when non-empty; without a dictionary neither is logged.
C6_SpellingSplit ==
    pc = "done" =>
        LET toks    == TokensOf(Join(plain_text))
            unknown == IF spelling_dictionary.t = "set" /\ spelling_dictionary.words # {}
                       THEN toks \ spelling_dictionary.words ELSE {}
            numbers == {w \in unknown : IsDigit(w[1])}
        IN  /\ Lists("missing math mode", numbers)
            /\ Lists("misspelled words", unknown \ numbers)

C6_Witness ==
    /\ pc = "done"
    /\ Join(plain_text) = PlainExample
    /\ spelling_dictionary = PlainExampleDictionary
    /\ Messages(ERRORS, TheFile) =
          << Msg("misspelled words", << <<"m", "a", "t", "s">>, <<"o", "n">> >>),
             Msg("missing math mode", << <<"4", "2">> >>) >>

AllIn(w, Set) == \A k \in DOMAIN w : w[k] \in Set

\* the occurrences in s, delimited by word boundaries, of strings satisfying Is
Delimited(s, Is(_)) ==
    {SubSeq(s, ie[1], ie[2]) :
        ie \in {x \in (1..Len(s)) \X (1..Len(s)) :
                  /\ x[1] <= x[2]
                  /\ Boundary(s, x[1] - 1) /\ Boundary(s, x[2])
                  /\ Is(SubSeq(s, x[1], x[2]))}}

\* digits, a comma, then 1-3 digits
IsShortCommaGroup(w) ==
    \E c \in 2..(Len(w) - 1) :
        /\ w[c] = ","
        /\ AllIn(SubSeq(w, 1, c - 1), Digits)
        /\ AllIn(SubSeq(w, c + 1, Len(w)), Digits)
        /\ Len(w) - c <= 3

IsBareRun(w) == Len(w) >= 4 /\ AllIn(w, Digits)

IsClaimedNumber(w) == IsShortCommaGroup(w) \/ IsBareRun(w)

\* C7 as claimed: "incorrect math" lists exactly the word-boundary-delimited
\* runs that are digits, a comma and 1-3 digits, or 4 or more bare digits.
C7_Original ==
    pc = "done" => Lists("incorrect math", Delimited(Join(math_text), IsClaimedNumber))

\* a run of digits and commas that starts and ends with a digit
IsDigitCommaRun(w) ==
    /\ w # <<>> /\ AllIn(w, Digits \cup {","})
    /\ IsDigit(w[1]) /\ IsDigit(w[Len(w)])

\* the maximal word-boundary-delimited runs of digits and commas of s
MaximalRuns(s) ==
    LET Is(i, e) == /\ i <= e /\ Boundary(s, i - 1) /\ Boundary(s, e)
                    /\ IsDigitCommaRun(SubSeq(s, i, e))
    IN  {SubSeq(s, ie[1], ie[2]) :
            ie \in {x \in (1..Len(s)) \X (1..Len(s)) :
                      /\ Is(x[1], x[2])
                      /\ \A y \in (1..x[1]) \X (x[2]..Len(s)) :
                            Is(y[1], y[2]) => y = x}}

\* C7 amended: "incorrect math" lists, sorted and without duplicates, exactly the
\* maximal word-boundary-delimited runs of digits and commas that start and end
\* with a digit and either hold a comma (however many digits follow it) or are 4
\* or more digits long; it is logged iff there is one; a number of at most 3
\* digits without a comma is never listed; the example text yields
\* ['12,34', '20000'].
C7_IncorrectMath ==
    pc = "done" =>
        LET text == Join(math_text)
            runs == {w \in MaximalRuns(text) : ~AllIn(w, Digits) \/ Len(w) >= 4}
        IN  /\ Lists("incorrect math", runs)
            /\ \A k \in DOMAIN Found("incorrect math") :
                  \A w \in Range(Found("incorrect math")[k]) :
                      ~(AllIn(w, Digits) /\ Len(w) <= 3)
            /\ text = <<" ">> \o MathExample =>
                  Messages(ERRORS, TheFile) =
                     << Msg("incorrect math",
                            << <<"1", "2", ",", "3", "4">>,
                               <<"2", "0", "0", "0", "0">> >>) >>

C7_Witness ==
    /\ pc = "done"
    /\ Join(math_text) = <<" ", "1", ",", "1", "1", "1", "1">>
    /\ Messages(ERRORS, TheFile) =
          << Msg("incorrect math", << <<"1", ",", "1", "1", "1", "1">> >>) >>

----------------------------------------------------------------------------
(* Metadata: values of the declared configuration and of the default schema *)

\* Python values: None, int, str, dict (a dict keeps its keys in insertion order)
PyInt(v)    == [t |-> "int", v |-> v]
PyStr(x)    == [t |-> "str", s |-> x]
PyDict(items) == [t |-> "dict", items |-> items]
Item(k, v)  == [k |-> k, v |-> v]

K_limits     == <<"l", "i", "m", "i", "t", "s">>
K_memory     == <<"m", "e", "m", "o", "r", "y">>
K_name       == <<"n", "a", "m", "e">>
K_foo        == <<"f", "o", "o">>
K_bar        == <<"b", "a", "r">>
K_time       == <<"t", "i", "m", "e">>
K_fault      == <<"f", "a", "u", "l", "t">>
K_validation == <<"v", "a", "l", "i", "d", "a", "t", "i", "o", "n">>
S_default    == <<"d", "e", "f", "a", "u", "l", "t">>

DictKeys(d) == {d.items[i].k : i \in DOMAIN d.items}

\* d[k] for a dict that has the key
Lookup(d, k) == d.items[CHOOSE i \in DOMAIN d.items : d.items[i].k = k].v

\* `k in default`: "yes", "no", or "TypeError" (None and int are not containers)
Contains(default, k) ==
    CASE default.t = "dict" -> IF k \in DictKeys(default) THEN "yes" ELSE "no"
      [] default.t = "str"  -> IF IsSubstr(k, default.s) THEN "yes" ELSE "no"
      [] OTHER              -> "TypeError"

\* default[k], evaluated after `k in default` held: a str cannot be indexed by a str
CanIndex(default, k) == default.t = "dict"

WARN_ABOUT_SETTINGS ==
    { <<"v", "a", "l", "i", "d", "a", "t", "i", "o", "n">>,
      <<"t", "y", "p", "e">>,
      <<"l", "i", "m", "i", "t", "s", "/", "m", "e", "m", "o", "r", "y">>,
      <<"l", "i", "m", "i", "t", "s", "/", "o", "u", "t", "p", "u", "t">>,
      <<"l", "i", "m", "i", "t", "s", "/", "c", "o", "m", "p", "i", "l", "a", "t", "i", "o", "n", "_", "t", "i", "m", "e">>,
      <<"l", "i", "m", "i", "t", "s", "/", "v", "a", "l", "i", "d", "a", "t", "i", "o", "n", "_", "t", "i", "m", "e">>,
      <<"l", "i", "m", "i", "t", "s", "/", "v", "a", "l", "i", "d", "a", "t", "i", "o", "n", "_", "m", "e", "m", "o", "r", "y">>,
      <<"l", "i", "m", "i", "t", "s", "/", "v", "a", "l", "i", "d", "a", "t", "i", "o", "n", "_", "o", "u", "t", "p", "u", "t">> }

\* full_key = path + ('/' if path else '') + k
FullKey(path, k) == path \o (IF path # <<>> THEN <<"/">> ELSE <<>>) \o k

\* problem + '/problem.yaml'
ProblemYaml(p) == <<p, "problem.yaml">>

----------------------------------------------------------------------------
(* _check_metadata_recursive *)

\* what one iteration of the loop of line 184 does for the item it = (k, data[k]):
\* the messages it logs and how it ends ("next", "call" or "raise")
MetaKeyStep(it, default, path) ==
    LET full_key == FullKey(path, it.k)
        unusual  == IF full_key \in WARN_ABOUT_SETTINGS
                    THEN <<Msg("specifying unusual metadata value", <<full_key>>)>>
                    ELSE <<>>
        has      == Contains(default, it.k)
    IN  IF has = "TypeError"
        THEN [msgs |-> unusual, end |-> "raise", full_key |-> full_key]
        ELSE IF has = "no"
        THEN [msgs |-> unusual \o <<Msg("option is not in default", <<full_key>>)>>,
              end |-> "next", full_key |-> full_key]
        ELSE IF it.v.t = "dict"
        THEN [msgs |-> unusual,
              end |-> IF CanIndex(default, it.k) THEN "call" ELSE "raise",
              full_key |-> full_key]
        ELSE [msgs |-> unusual, end |-> "next", full_key |-> full_key]

RECURSIVE MetaRun(_, _, _, _, _)
\* _check_metadata_recursive(problem, data, default, path) run to completion on
\* the log: the log it leaves and whether it raised
MetaRun(problem, data, default, path, log) ==
    LET RECURSIVE Loop(_, _)
        Loop(items, acc) ==
            IF items = <<>> \/ acc.raised THEN acc
            ELSE LET st  == MetaKeyStep(Head(items), default, path)
                     lg  == LogAll(acc.log, ProblemYaml(problem), st.msgs)
                 IN  IF st.end = "raise" THEN [log |-> lg, raised |-> TRUE]
                     ELSE IF st.end = "call"
                     THEN Loop(Tail(items),
                               MetaRun(problem, Head(items).v,
                                       Lookup(default, Head(items).k), st.full_key, lg))
                     ELSE Loop(Tail(items), [log |-> lg, raised |-> FALSE])
    IN  IF data = None
        THEN [log |-> Log(log, ProblemYaml(problem), Msg("there is no metadata", <<>>)),
              raised |-> FALSE]
        ELSE Loop(data.items, [log |-> log, raised |-> FALSE])

\* the problem whose metadata is checked
TheProblem == "p"

\* line 337: _check_metadata_recursive(problem.shortname, specified_metadata, defaults);
\* lines 180-182
MetaCall ==
    /\ pc = "meta"
    /\ mstack = <<>>
    /\ IF declared = None
       THEN /\ ERRORS' = Log(ERRORS, ProblemYaml(TheProblem), Msg("there is no metadata", <<>>))
            /\ pc' = "meta_done"
            /\ mstack' = mstack
       ELSE /\ mstack' = <<[data |-> declared, default |-> defaults, path |-> <<>>, idx |-> 1]>>
            /\ UNCHANGED <<ERRORS, pc>>
    /\ UNCHANGED <<dfsVars, textVars, declared, defaults, visited, runVars>>

\* one iteration of the loop of line 184 in the innermost call
MetaKey ==
    /\ pc = "meta"
    /\ mstack # <<>>
    /\ LET top == mstack[Len(mstack)]
       IN  /\ top.idx <= Len(top.data.items)
           /\ LET it == top.data.items[top.idx]
                  st == MetaKeyStep(it, top.default, top.path)
              IN  /\ visited' = Append(visited, st.full_key)
                  /\ ERRORS' = LogAll(ERRORS, ProblemYaml(TheProblem), st.msgs)
                  /\ \/ /\ st.end = "raise"
                        \* the TypeError leaves every call
                        /\ mstack' = <<>>
                        /\ pc' = "meta_raised"
                     \/ /\ st.end = "call"
                        /\ mstack' = Append([mstack EXCEPT ![Len(mstack)].idx = @ + 1],
                                            [data |-> it.v, default |-> Lookup(top.default, it.k),
                                             path |-> st.full_key, idx |-> 1])
                        /\ pc' = pc
                     \/ /\ st.end = "next"
                        /\ mstack' = [mstack EXCEPT ![Len(mstack)].idx = @ + 1]
                        /\ pc' = pc
    /\ UNCHANGED <<dfsVars, textVars, declared, defaults, runVars>>

\* the loop of the innermost call is over
MetaReturn ==
    /\ pc = "meta"
    /\ mstack # <<>>
    /\ mstack[Len(mstack)].idx > Len(mstack[Len(mstack)].data.items)
    /\ mstack' = SubSeq(mstack, 1, Len(mstack) - 1)
    /\ pc' = IF Len(mstack) = 1 THEN "meta_done" ELSE pc
    /\ UNCHANGED <<ERRORS, dfsVars, textVars, declared, defaults, visited, runVars>>

----------------------------------------------------------------------------
(* Declared configurations and schemas *)

MaxMetaNodes == 3

MetaKeyNames == {K_limits, K_memory, K_name, K_foo}
MetaLeaves   == {PyInt(1024), PyInt(256)}

NoKeys == [n |-> 0, parent |-> <<>>, key |-> <<>>, val |-> <<>>]

\* the mappings a next key (in document order) can be added to: the top level
\* (0), the last key and its ancestors, when they hold mappings
OpenMaps(m) ==
    {0} \cup {a \in 1..m.n : /\ a = m.n \/ IsAncestor(m, a, m.n)
                             /\ m.val[a].t = "dict"}

RECURSIVE KeyTrees(_)
\* the configurations of n keys, as numbered nodes
KeyTrees(n) ==
    IF n = 0 THEN {NoKeys}
    ELSE UNION {UNION {{[n |-> m.n + 1, parent |-> Append(m.parent, p),
                         key |-> Append(m.key, k), val |-> Append(m.val, v)] :
                           k \in {kk \in MetaKeyNames :
                                    \A j \in 1..m.n : m.key[j] = kk => m.parent[j] # p},
                           v \in MetaLeaves \cup {PyDict(<<>>)}} :
                        p \in OpenMaps(m)} :
                 m \in KeyTrees(n - 1)}

RECURSIVE Nest(_, _)
\* the dict under node i of a configuration (0: the whole configuration)
Nest(m, i) ==
    LET kids == Children(m, i)
    IN  PyDict([j \in 1..Len(kids) |->
                  Item(m.key[kids[j]],
                       IF m.val[kids[j]].t = "dict" THEN Nest(m, kids[j])
                       ELSE m.val[kids[j]])])

\* declared: {limits: {foo: 1024, memory: 256}, validation: 'default', memory: 256}
DeclaredLarge ==
    PyDict(<<Item(K_limits, PyDict(<<Item(K_foo, PyInt(1024)), Item(K_memory, PyInt(256))>>)),
             Item(K_validation, PyStr(S_default)),
             Item(K_memory, PyInt(256))>>)

\* declared: {foo: 1024, name: {foo: 256}, memory: 256}
DeclaredNamed ==
    PyDict(<<Item(K_foo, PyInt(1024)),
             Item(K_name, PyDict(<<Item(K_foo, PyInt(256))>>)),
             Item(K_memory, PyInt(256))>>)

\* declared: {validation: {foo: 256}}
DeclaredUnderStr == PyDict(<<Item(K_validation, PyDict(<<Item(K_foo, PyInt(256))>>))>>)

\* declared: {validation: {fault: {foo: 256}}}
DeclaredSubstring ==
    PyDict(<<Item(K_validation,
                  PyDict(<<Item(K_fault, PyDict(<<Item(K_foo, PyInt(256))>>))>>))>>)

\* the declared configurations: None (an empty file), the named ones and every
\* configuration of at most max keys
Declareds(max) ==
    {None, DeclaredLarge, DeclaredNamed, DeclaredUnderStr, DeclaredSubstring}
    \cup UNION {{Nest(m, 0) : m \in KeyTrees(n)} : n \in 0..max}

\* the schema built by lines 334-336: optional keys with their defaults, and
\* the mandatory key name with None
ProblemDefaults ==
    PyDict(<<Item(K_limits, PyDict(<<Item(K_memory, PyInt(1024)), Item(K_time, PyInt(1))>>)),
             Item(K_validation, PyStr(S_default)),
             Item(K_memory, PyInt(256)),
             Item(K_name, None)>>)

\* the schema {"bar": 0}
BarDefaults == PyDict(<<Item(K_bar, PyInt(0))>>)

InitMeta ==
    /\ ERRORS = EmptyLog
    /\ pc = "meta"
    /\ declared \in Declareds(MaxMetaNodes)
    /\ defaults \in {ProblemDefaults, BarDefaults}
    /\ mstack = <<>> /\ visited = <<>>
    /\ doc = NoDoc /\ stack = <<>> /\ plain_text = <<>> /\ math_text = <<>>
    /\ spelling_dictionary = None
    /\ IdleSets /\ IdleRun

NextMeta == MetaCall \/ MetaKey \/ MetaReturn

SpecMeta == InitMeta /\ [][NextMeta]_vars

\* the stepwise run and the run to completion agree
MetaRunAgrees ==
    pc \in {"meta_done", "meta_raised"} =>
        LET r == MetaRun(TheProblem, declared, defaults, <<>>, EmptyLog)
        IN  r.log = ERRORS /\ r.raised = (pc = "meta_raised")

Front(q) == SubSeq(q, 1, Len(q) - 1)
Last(q)  == q[Len(q)]
IsPrefix(a, b) == Len(a) <= Len(b) /\ SubSeq(b, 1, Len(a)) = a

RECURSIVE KeyPaths(_)
\* the key paths of a configuration, each a sequence of keys
KeyPaths(data) ==
    IF data.t # "dict" THEN {}
    ELSE UNION {{<<data.items[i].k>>}
                \cup {<<data.items[i].k>> \o q : q \in KeyPaths(data.items[i].v)} :
                    i \in DOMAIN data.items}

Undefined == [t |-> "undefined"]

RECURSIVE Walk(_, _)
\* the value a key path leads to in a configuration or schema
Walk(value, q) ==
    IF q = <<>> THEN value
    ELSE IF value.t = "dict" /\ Head(q) \in DictKeys(value)
    THEN Walk(Lookup(value, Head(q)), Tail(q))
    ELSE Undefined

RECURSIVE PathName(_)
\* the full key of a key path: its keys joined by "/"
PathName(q) ==
    IF Len(q) = 1 THEN q[1] ELSE PathName(Front(q)) \o <<"/">> \o Last(q)

\* the last key of path q is absent from the schema at its level
Absent(q) ==
    LET level == Walk(defaults, Front(q))
    IN  level.t = "dict" /\ Last(q) \notin DictKeys(level)

\* q lies beneath a key that is absent from the schema
BeneathAbsent(q) == \E n \in 1..(Len(q) - 1) : Absent(SubSeq(q, 1, n))

MetaOver == pc \in {"meta_done", "meta_raised"}

YamlMessages == Messages(ERRORS, ProblemYaml(TheProblem))

\* C4: for a declared key absent from the schema at its level, exactly one error
\* "option <fullKey> is not in default" is logged, nothing beneath the key is
\* examined, and every key of its level and of the enclosing levels is still
\* processed.
C4_SchemaViolation ==
    MetaOver =>
        \A q \in KeyPaths(declared) : Absent(q) =>
            /\ Count(YamlMessages, Msg("option is not in default", <<PathName(q)>>)) = 1
            /\ \A r \in KeyPaths(declared) :
                  /\ (IsPrefix(q, r) /\ r # q) => PathName(r) \notin Range(visited)
                  /\ IsPrefix(Front(r), Front(q)) => PathName(r) \in Range(visited)

\* C5: a declared leaf that is in the schema with the schema's default value is
\* reported by "specifies default value for <fullKey>; remove the definition",
\* and a declared leaf whose value differs from the default is not.
C5_DefaultValue ==
    pc = "meta_done" =>
        \A q \in KeyPaths(declared) :
            Walk(declared, q).t # "dict" =>
                (Msg("specifies default value; remove the definition", <<PathName(q)>>)
                    \in Range(YamlMessages))
                = (Walk(declared, q) = Walk(defaults, q))

\* every key path not beneath an absent key was examined exactly once
VisitedOnce ==
    \A q \in KeyPaths(declared) :
        ~BeneathAbsent(q) => Count(visited, PathName(q)) = 1

\* C8: for every declared tree and schema the checker ends without raising, and
\* has then examined each key path not beneath an absent key exactly once.
C8_NoRaise ==
    /\ pc # "meta_raised"
    /\ pc = "meta_done" => VisitedOnce

\* what does hold: a run that did not raise satisfies C4 and the visiting part of C8
MetaWithoutRaise ==
    pc = "meta_done" => (C4_SchemaViolation /\ VisitedOnce)

----------------------------------------------------------------------------
(* Problem packages: what the external collaborators give for a problem *)

MaxProblems == 2

\* a statement file of the directory problem_statement: its name, whether tex.parse() raises, the tree it parses to,
\* and the line-level checks of _regex_checks that match one of its lines
File(name, parse, tree, hits) == [name |-> name, parse |-> parse, tree |-> tree, hits |-> hits]

\* re.match(r'.*problem(?:\.([a-z][a-z]))?.tex$', filename) and m.group(1) or 'en',
\* for the file names used; "" when the name does not match
Language(name) ==
    CASE name = "problem.tex"     -> "en"
      [] name = "problem.sv.tex"  -> "sv"
      [] name = "problem-old.tex" -> ""

\* the messages of _regex_checks, in their order
RegexChecks ==
    << "uses double-quotes; use two single-quotes instead",
       "bad includegraphics width",
       "use \\ldots rather than three periods",
       "use real rather than floating-point",
       "use \\cdot instead of \\times for multiplication" >>

\* the warnings of lines 223-225 for a file whose lines match the checks in hits
LineWarnings(hits) ==
    LET RECURSIVE From(_)
        From(i) == IF i > Len(RegexChecks) THEN <<>>
                   ELSE (IF RegexChecks[i] \in hits THEN <<Msg(RegexChecks[i], <<>>)>>
                         ELSE <<>>) \o From(i + 1)
    IN  From(1)

\* document: "The cat sat on 42 Mats" and, in math, "20000"
TreeProse ==
    [n |-> 4, parent |-> <<0, 1, 1, 3>>,
     kind |-> <<"#document", "Text", "math", "Text">>,
     text |-> << <<>>,
                 <<"T", "h", "e", " ", "c", "a", "t", " ", "s", "a", "t", " ", "o", "n", " ", "4", "2", " ", "M", "a", "t", "s">>,
                 <<>>, <<"2", "0", "0", "0", "0">> >>]

\* document: the text "the cat" alone
TreeClean ==
    [n |-> 2, parent |-> <<0, 1>>, kind |-> <<"#document", "Text">>,
     text |-> << <<>>, <<"t", "h", "e", " ", "c", "a", "t">> >>]

FileGood    == File("problem.tex", "ok", TreeClean, {})
FileProse   == File("problem.tex", "ok", TreeProse, {RegexChecks[1], RegexChecks[3]})
FileBroken  == File("problem.tex", "raises", NoDoc, {RegexChecks[1]})
FileSwedish == File("problem.sv.tex", "ok", TreeProse, {RegexChecks[5]})
FileOld     == File("problem-old.tex", "ok", TreeClean, {RegexChecks[1]})

S1 == <<"s", "1">>
S2 == <<"s", "2">>

\* a package: whether opening it raises (Problem(...), yaml.safe_load), whether
\* name and title match, its declared configuration, its submissions as
\* _check_submissions sums them up, its statement files in the order glob.glob
\* lists them, the size in kB of its largest image, and the source of its full
\* metadata
Package(opens, title, decl, subs, files, image, source) ==
    [opens |-> opens, title |-> title, declared |-> decl, subs |-> subs,
     files |-> files, image |-> image, source |-> source]

Submissions(wa, tle, accepted, slow) ==
    [has_wa |-> wa, has_tle |-> tle, num_accepted |-> accepted, has_slow |-> slow]

DeclaredFoo == PyDict(<<Item(K_foo, PyInt(1024))>>)

RECURSIVE GlobOrders(_)
\* glob.glob(.../problem*.tex) on a directory holding the files S (each name
\* once): the files in the order of the directory listing, which is any order
GlobOrders(S) ==
    IF S = {} THEN {<<>>}
    ELSE UNION {{<<f>> \o o : o \in GlobOrders(S \ {f})} : f \in S}

\* the packages with the statement files dir in their directory
Listed(opens, title, decl, subs, dir, image, source) ==
    {Package(opens, title, decl, subs, files, image, source) : files \in GlobOrders(dir)}

Packages ==
    Listed("ok", TRUE, PyDict(<<>>), Submissions(TRUE, TRUE, 2, TRUE),
           {FileGood}, 10, S1)
    \cup Listed("ok", FALSE, DeclaredFoo, Submissions(FALSE, FALSE, 1, FALSE),
                {FileProse, FileSwedish}, 300, S2)
    \cup Listed("ok", TRUE, PyDict(<<>>), Submissions(TRUE, TRUE, 2, TRUE),
                {FileBroken, FileSwedish}, 10, S2)
    \cup Listed("ok", TRUE, PyDict(<<>>), Submissions(TRUE, FALSE, 2, TRUE),
                {FileOld, FileProse}, 10, S1)
    \cup Listed("ok", FALSE, DeclaredNamed, Submissions(TRUE, TRUE, 2, TRUE),
                {FileGood}, 10, S2)
    \cup Listed("ok", TRUE, None, Submissions(TRUE, TRUE, 2, TRUE), {}, 10, S1)
    \cup Listed("raises", TRUE, None, Submissions(TRUE, TRUE, 2, TRUE), {}, 10, S1)

\* where _check_problem_name_uniqueness takes the names used in Kattis from: the
\* database when kattis.util.db is loaded, else the cache file when one is
\* named, else nowhere; and what reading gives: the names, or an exception (the
\* query fails, the cache file cannot be opened)
KattisNames(source, read, names) == [source |-> source, read |-> read, names |-> names]

NameSources ==
    {KattisNames("none", "ok", {})}
    \cup {KattisNames(source, "ok", names) : source \in {"db", "cache"},
                                            names \in {{}, {"p1"}, {"p2", "p9"}}}
    \cup {KattisNames("db", "ConnectionError", {}), KattisNames("cache", "OSError", {})}

ProblemNames == <<"p1", "p2", "p3", "p4">>

\* the spelling dictionaries loaded: English and global, none for Swedish
LoadedDictionaries ==
    [lang \in {"en", "global"} |->
        IF lang = "en" THEN {<<"t", "h", "e">>, <<"c", "a", "t">>, <<"s", "a", "t">>}
        ELSE {<<"o", "n">>}]

\* warning and error are lambdas of two parameters (lines 88-89): a call with
\* nargs arguments raises TypeError before _log runs unless nargs = 2
LambdaCall(nargs) == IF nargs = 2 THEN "ok" ELSE "TypeError"

\* Catches with a slip: `except OSError:`
Catches_OSErrorOnly(exception) == exception = "OSError"

\* the bare `except:` of line 406 catches every exception
Catches(exception) == TRUE

\* the warnings of _check_submissions
SubmissionWarnings(subs) ==
    (IF ~subs.has_wa THEN <<Msg("has no WA submissions", <<>>)>> ELSE <<>>)
    \o (IF ~subs.has_tle THEN <<Msg("has no TLE submissions", <<>>)>> ELSE <<>>)
    \o (IF subs.num_accepted = 1 THEN <<Msg("has only one AC submission", <<>>)>> ELSE <<>>)
    \o (IF ~subs.has_slow THEN <<Msg("there are no slow accepted submissions", <<>>)>>
        ELSE <<>>)

----------------------------------------------------------------------------
(* _parse_for_tex_errors and _check_statement *)

\* _parse_for_tex_errors(problem, filename, spelling_dictionary) on the log: the
\* log it leaves, whether an exception leaves it, and what the parser did
ParseForTexErrors(problem, file, dict, modules, log) ==
    IF "plasTeX.TeX" \notin modules
    THEN [log |-> Log(log, ProblemKey(problem),
                      Msg("could not load plasTeX for parsing problem description", <<>>)),
          raised |-> FALSE, parser |-> "unavailable"]
    ELSE IF file.parse = "raises"
    THEN \* line 306: warning(filename, 'could not parse tex', e)
         IF LambdaCall(3) = "ok"
         THEN [log |-> Log(log, FileKey(problem, file.name), Msg("could not parse tex", <<>>)),
               raised |-> FALSE, parser |-> "raised"]
         ELSE [log |-> log, raised |-> TRUE, parser |-> "raised"]
    ELSE LET r  == Dfs(file.tree, 1, FALSE, <<>>, <<>>)
             pl == CheckPlainTextOp(Join(r.plain_text), dict)
             ma == CheckMathTextOp(Join(r.math_text))
         IN  [log |-> LogAll(log, FileKey(problem, file.name),
                             Findings(pl.misspelled_words, ma, pl.missing_math_mode)),
              raised |-> FALSE, parser |-> "ok"]

\* lines 215-217: the dictionary of the language, united in place with the global one
MergedDictionaries(dicts, language) ==
    IF language \in DOMAIN dicts
    THEN [dicts EXCEPT ![language] =
              @ \cup (IF "global" \in DOMAIN dicts THEN dicts["global"] ELSE {})]
    ELSE dicts

Advance ==
    /\ pidx' = pidx + 1
    /\ fidx' = 0
    /\ pc' = IF pidx = Len(problems) THEN "consistency" ELSE "problem"

\* lines 406-408, or the exception leaves check_problems
Failure(exception, log) ==
    IF Catches(exception)
    THEN /\ errors' = Append(errors, problems[pidx])
         /\ ERRORS' = Log(log, ProblemKey(problems[pidx]),
                          Msg("an exception occurred when checking this problem", <<>>))
         /\ Advance
    ELSE /\ pc' = "crashed"
         /\ ERRORS' = log
         /\ UNCHANGED <<errors, pidx, fidx>>

FieldNames == <<"source", "source_url", "license">>

\* the full metadata _check_metadata returns for a package
FullMetadata(pkg) ==
    [k \in Range(FieldNames) |->
        IF k = "source" THEN pkg.source
        ELSE IF k = "license" THEN <<"c", "c">> ELSE <<>>]

\* 200 kB
ImageLimit == 200

\* line 399: _check_problem_name_uniqueness. The call is outside the try of
\* lines 404-408: an exception of the query or of open(cache_filename) leaves
\* check_problems before any problem is processed
CheckUniqueness ==
    /\ pc = "uniqueness"
    /\ LET kattis_names == env.kattis.names
           non_unique   == SelectSeq(ProblemNames,
                                     LAMBDA p : p \in Range(problems) \cap kattis_names)
       IN  IF env.kattis.read # "ok"
           THEN /\ pc' = "aborted"
                /\ UNCHANGED <<ERRORS, pidx>>
           ELSE /\ ERRORS' =
                     IF kattis_names = {}
                     THEN Log(ERRORS, General,
                              Msg("could not check whether problem names are already used in Kattis",
                                  <<>>))
                     ELSE IF non_unique # <<>>
                     THEN Log(ERRORS, General,
                              Msg("some problems use names already in Kattis", non_unique))
                     ELSE ERRORS
                /\ pidx' = 1
                /\ pc' = IF problems = <<>> THEN "consistency" ELSE "problem"
    /\ UNCHANGED <<dfsVars, textVars, metaVars, problems, fidx, kidx, metadata, errors,
                   env, trace>>

\* lines 403-405 and _check_problem up to line 385: the metadata and the submissions
CheckProblem ==
    /\ pc = "problem"
    /\ LET p   == problems[pidx]
           pkg == env.packages[p]
       IN  IF "problemtools.verifyproblem" \notin env.modules
           THEN /\ ERRORS' = Log(ERRORS, ProblemKey(p), Msg("could not load problemtools", <<>>))
                /\ metadata' = metadata @@ (p :> [k \in {} |-> <<>>])
                /\ Advance
                /\ UNCHANGED errors
           ELSE IF pkg.opens = "raises"
           THEN /\ Failure("OSError", ERRORS)
                /\ UNCHANGED metadata
           ELSE LET titled == IF pkg.title THEN ERRORS
                              ELSE Log(ERRORS, ProblemKey(p),
                                       Msg("use matching directory name and title", <<>>))
                    r      == MetaRun(p, pkg.declared, ProblemDefaults, <<>>, titled)
                IN  IF r.raised
                    THEN /\ Failure("TypeError", r.log)
                         /\ UNCHANGED metadata
                    ELSE /\ ERRORS' = LogAll(r.log, ProblemKey(p), SubmissionWarnings(pkg.subs))
                         /\ pc' = "statement"
                         /\ fidx' = 1
                         /\ UNCHANGED <<pidx, metadata, errors>>
    /\ UNCHANGED <<dfsVars, textVars, metaVars, problems, kidx, env, trace>>

\* one iteration of the loop of _check_statement (lines 209-225)
CheckStatementFile ==
    /\ pc = "statement"
    /\ LET p     == problems[pidx]
           files == env.packages[p].files
       IN  /\ fidx <= Len(files)
           /\ LET file     == files[fidx]
                  language == Language(file.name)
                  dicts    == MergedDictionaries(env.dictionaries, language)
                  dict     == IF language \in DOMAIN dicts THEN WordSet(dicts[language])
                              ELSE None
                  r        == ParseForTexErrors(p, file, dict, env.modules, ERRORS)
                  key      == FileKey(p, file.name)
              IN  IF language = ""
                  THEN /\ fidx' = fidx + 1
                       /\ UNCHANGED <<ERRORS, pc, pidx, errors, env, trace>>
                  ELSE /\ env' = [env EXCEPT !.dictionaries = dicts]
                       /\ IF r.raised
                          THEN /\ Failure("TypeError", r.log)
                               /\ trace' = trace @@ (key :> [parser |-> r.parser,
                                                             line_checks |-> FALSE])
                          ELSE /\ ERRORS' = LogAll(r.log, key, LineWarnings(file.hits))
                               /\ trace' = trace @@ (key :> [parser |-> r.parser,
                                                             line_checks |-> TRUE])
                               /\ fidx' = fidx + 1
                               /\ UNCHANGED <<pc, pidx, errors>>
    /\ UNCHANGED <<dfsVars, textVars, metaVars, problems, kidx, metadata>>

\* the loop of _check_statement is over: _check_large_images, and line 405
\* stores the full metadata
FinishProblem ==
    /\ pc = "statement"
    /\ LET p   == problems[pidx]
           pkg == env.packages[p]
       IN  /\ fidx > Len(pkg.files)
           /\ ERRORS' = IF ImageLimit < pkg.image
                        THEN Log(ERRORS, FileKey(p, "figure.png"), Msg("image is large", <<>>))
                        ELSE ERRORS
           /\ metadata' = metadata @@ (p :> FullMetadata(pkg))
    /\ Advance
    /\ UNCHANGED <<dfsVars, textVars, metaVars, problems, kidx, errors, env, trace>>

\* dict(collections.Counter(values)) as text: each distinct value, in the order
\* met, with the number of times it occurs
Counter(values) ==
    LET RECURSIVE Firsts(_)
        Firsts(i) ==
            IF i > Len(values) THEN <<>>
            ELSE (IF \E j \in 1..(i - 1) : values[j] = values[i] THEN <<>>
                  ELSE <<values[i] \o <<":", CharOrder[Ord("0") + Count(values, values[i])]>> >>)
                 \o Firsts(i + 1)
    IN  Firsts(1)

RECURSIVE Unfailed(_, _)
\* the problems of the list that are not in errors, in order
Unfailed(ps, failed) ==
    IF ps = <<>> THEN <<>>
    ELSE (IF Head(ps) \in Range(failed) THEN <<>> ELSE <<Head(ps)>>)
         \o Unfailed(Tail(ps), failed)

\* one iteration of the loop of lines 410-416
CheckConsistency ==
    /\ pc = "consistency"
    /\ LET k    == FieldNames[kidx]
           good == Unfailed(problems, errors)
       IN  ERRORS' =
             IF \E i \in DOMAIN good : k \notin DOMAIN metadata[good[i]]
             THEN \* KeyError, caught at line 415
                  Log(ERRORS, General,
                      Msg("could not check for consistency of metadata field", <<k>>))
             ELSE LET values == Counter([i \in DOMAIN good |-> metadata[good[i]][k]])
                  IN  IF 1 < Len(values)
                      THEN Log(ERRORS, General, Msg("multiple values for", <<k>> \o values))
                      ELSE ERRORS
    /\ kidx' = kidx + 1
    /\ pc' = IF kidx = Len(FieldNames) THEN "finished" ELSE pc
    /\ UNCHANGED <<dfsVars, textVars, metaVars, problems, pidx, fidx, metadata, errors,
                   env, trace>>

Init ==
    /\ ERRORS = EmptyLog
    /\ pc = "uniqueness"
    /\ \E n \in 0..MaxProblems : problems = SubSeq(ProblemNames, 1, n)
    /\ pidx = 0 /\ fidx = 0 /\ kidx = 1
    /\ metadata = EmptyLog
    /\ errors = <<>>
    /\ env \in [modules : SUBSET {"plasTeX.TeX", "problemtools.verifyproblem"},
                dictionaries : {LoadedDictionaries},
                kattis : NameSources,
                packages : [Range(problems) -> Packages]]
    /\ trace = EmptyLog
    /\ doc = NoDoc /\ stack = <<>> /\ plain_text = <<>> /\ math_text = <<>>
    /\ spelling_dictionary = None
    /\ IdleSets /\ IdleMeta

Next ==
    \/ CheckUniqueness
    \/ CheckProblem
    \/ CheckStatementFile
    \/ FinishProblem
    \/ CheckConsistency

Spec == Init /\ [][Next]_vars

ExceptionEntry == Msg("an exception occurred when checking this problem", <<>>)

\* the files of the problem of a file key that come after that file and are
\* statement files of some language
LaterFiles(key) ==
    LET files == env.packages[key[1]].files
        at    == CHOOSE i \in DOMAIN files : files[i].name = key[3]
    IN  {FileKey(key[1], files[j].name) :
            j \in {i \in DOMAIN files : i > at /\ Language(files[i].name) # ""}}

\* C1: when the parser raises on a statement file, exactly one failure message
\* is logged under the file's key, no exception leaves _parse_for_tex_errors (the
\* problem is not recorded as failed), the line-level checks of the file run, and
\* the later statement files of the problem are checked too.
C1_ParseFailure ==
    \A key \in DOMAIN trace : trace[key].parser = "raised" =>
        /\ Count(Messages(ERRORS, key), Msg("could not parse tex", <<>>)) = 1
        /\ trace[key].line_checks
        /\ key[1] \notin Range(errors)
        /\ pc \in {"consistency", "finished"} => LaterFiles(key) \subseteq DOMAIN trace

\* the number of problems whose processing is over
Processed ==
    CASE pc \in {"uniqueness", "aborted"} -> 0
      [] pc \in {"problem", "statement", "crashed"} -> pidx - 1
      [] OTHER -> Len(problems)

\* the text of the "multiple values" warning for field k over the problems good
Compared(k, good) == Counter([i \in DOMAIN good |-> FullMetadata(env.packages[good[i]])[k]])

\* a step that processes a problem changes the entries of that problem only
OthersUntouched ==
    pc \in {"problem", "statement"} =>
        /\ \A key \in DOMAIN ERRORS :
              key[1] # problems[pidx] =>
                  key \in DOMAIN ERRORS' /\ ERRORS'[key] = ERRORS[key]
        /\ \A key \in (DOMAIN ERRORS') \ (DOMAIN ERRORS) : key[1] = problems[pidx]

\* C3: whichever problems raise while they are processed, check_problems does
\* not let that exception out (pc = "crashed" is the state where it would have);
\* it processes every problem in order, logs exactly one exception entry under
\* the key of each failing problem and none under the others, leaves the entries
\* of the other problems as they are, and compares source, source_url and
\* license over the problems that did not fail only. The exception of the name
\* check of line 399 (pc = "aborted") is raised before the first problem is
\* processed and is not an exception of a problem's processing.
C3_FailuresContained ==
    /\ [](/\ pc # "crashed"
          /\ \A i \in DOMAIN problems :
                /\ i <= Processed =>
                      (problems[i] \in DOMAIN metadata) # (problems[i] \in Range(errors))
                /\ i > Processed =>
                      problems[i] \notin DOMAIN metadata \cup Range(errors)
                /\ Count(Messages(ERRORS, ProblemKey(problems[i])), ExceptionEntry)
                      = IF problems[i] \in Range(errors) THEN 1 ELSE 0
          \* errors holds the failing problems in the order of the list
          /\ errors = SelectSeq(problems, LAMBDA x : x \in Range(errors))
          /\ (pc = "finished" /\ "problemtools.verifyproblem" \in env.modules) =>
                \A k \in Range(FieldNames) :
                    LET said == {m \in Range(Messages(ERRORS, General)) :
                                   m.msg = "multiple values for" /\ m.args[1] = k}
                        text == Compared(k, Unfailed(problems, errors))
                    IN  said = IF 1 < Len(text)
                               THEN {Msg("multiple values for", <<k>> \o text)} ELSE {})
    /\ [][OthersUntouched]_vars

C3_Witness ==
    /\ pc = "finished"
    /\ problems = <<"p1", "p2">>
    /\ errors = <<"p1">>
    /\ "p2" \in DOMAIN metadata
    /\ env.packages["p1"].source # env.packages["p2"].source
    /\ Messages(ERRORS, ProblemKey("p1")) = <<ExceptionEntry>>
    /\ \A m \in Range(Messages(ERRORS, General)) : m.msg # "multiple values for"

====
